---- MODULE Spec2Model ----
(***************************************************************************)
(* The icon pipeline of generate-app-icons.py as a state machine.          *)
(*                                                                         *)
(* State: the host platform, the filesystem (the set of existing paths),   *)
(* the paths this run created or wrote, the external commands run so far   *)
(* (argv and outcome), the lines printed, the position in the code and the *)
(* return value of each function.  A run either is the script itself       *)
(* (entry = "main") or a direct call of one of its functions on an         *)
(* arbitrary filesystem (entry = that function), which is how a function's *)
(* own contract is exercised.                                              *)
(*                                                                         *)
(* External commands are opaque: every invocation made with check=True     *)
(* either exits 0 and has its documented effect, or exits non-zero         *)
(* (CalledProcessError) and leaves the filesystem as it was.               *)
(***************************************************************************)
EXTENDS Naturals, Sequences, FiniteSets, TLC

VARIABLES
    platform,   \* sys.platform
    entry,      \* the function this run calls
    fs0,        \* the filesystem when the run starts
    fs,         \* the filesystem: the set of existing paths
    written,    \* paths created or (over)written by this run
    calls,      \* subprocess.run invocations so far: [argv, ok]
    reported,   \* the set of lines printed so far
    pc,         \* position in the code
    i,          \* index of the enclosing loop
    j,          \* index of the inner loop of create_icns_file
    missing,    \* check_dependencies' list `missing`
    status      \* per function: idle, active, or how it ended

vars == <<platform, entry, fs0, fs, written, calls, reported, pc, i, j,
          missing, status>>

-----------------------------------------------------------------------------
(* Configuration literals of the script *)

Platforms == {"darwin", "linux"}

Functions == {"main", "check_dependencies", "create_directories",
              "generate_png_sizes", "create_icns_file", "create_ico_file",
              "create_favicon_files", "update_electron_config"}

\* required_tools, in dict order
required_tools == <<"magick", "iconutil">>

install_info(tool) ==
    IF tool = "magick" THEN "ImageMagick (brew install imagemagick)"
    ELSE "macOS iconutil (built-in on macOS)"

dirs == <<"icons", "icons/png", "build">>

sizes == <<16, 32, 48, 64, 128, 256, 512, 1024>>

svg_file == "prestige-ai-logo.svg"

iconset_dir == "icons/prestige-ai.iconset"

icns_file == "icons/prestige-ai.icns"

ico_file == "icons/prestige-ai.ico"

ico_sizes == <<16, 32, 48, 64, 128, 256>>

config_file == "electron-build-config.txt"

\* f"icons/png/icon-{size}x{size}.png"
PngPath(size) ==
    "icons/png/icon-" \o ToString(size) \o "x" \o ToString(size) \o ".png"

\* f'{size}x{size}'
SizeArg(size) == ToString(size) \o "x" \o ToString(size)

Range(s) == {s[k] : k \in 1..Len(s)}

AllPngs == {PngPath(sizes[k]) : k \in 1..Len(sizes)}

-----------------------------------------------------------------------------
(* Helpers *)

Call(argv, ok) == [argv |-> argv, ok |-> ok]

\* What main does next: stop with a return value, or go on to a function.
Stop(ret, say) == [pc |-> "done", main |-> ret, say |-> say]

Go(next) == [pc |-> next, main |-> "active", say |-> {}]

\* a main that ignores the result of check_dependencies
AfterCheckDependencies_NoAbort(val) == Go("create_directories")

\* main, lines 210-212: `if not check_dependencies(): print(...); return`
AfterCheckDependencies(val) ==
    IF val = "False"
    THEN Stop("None", {"Please install required dependencies and try again"})
    ELSE Go("create_directories")

\* main, line 214
AfterCreateDirectories(val) == Go("generate_png_sizes")

\* a main that ignores the result of generate_png_sizes
AfterGeneratePngSizes_NoAbort(val) == Go("create_icns_file")

\* main, lines 216-218: `if not generate_png_sizes(): print(...); return`
AfterGeneratePngSizes(val) ==
    IF val = "False"
    THEN Stop("None", {"Failed to generate PNG files"})
    ELSE Go("create_icns_file")

\* main, lines 220-223: the return values are discarded
AfterCreateIcnsFile(val) == Go("create_ico_file")

AfterCreateIcoFile(val) == Go("create_favicon_files")

AfterCreateFaviconFiles(val) == Go("update_electron_config")

\* main, lines 225-236
AfterUpdateElectronConfig(val) ==
    Stop("None", {"App icon generation complete!"})

\* The continuation of main after fn ended with val.  No call in main is
\* inside a try block: an exception leaving fn leaves main too.
MainCont(fn, val) ==
    IF val = "raised" THEN Stop("raised", {})
    ELSE CASE fn = "check_dependencies"     -> AfterCheckDependencies(val)
           [] fn = "create_directories"     -> AfterCreateDirectories(val)
           [] fn = "generate_png_sizes"     -> AfterGeneratePngSizes(val)
           [] fn = "create_icns_file"       -> AfterCreateIcnsFile(val)
           [] fn = "create_ico_file"        -> AfterCreateIcoFile(val)
           [] fn = "create_favicon_files"   -> AfterCreateFaviconFiles(val)
           [] fn = "update_electron_config" -> AfterUpdateElectronConfig(val)

\* fn ends with val ("True", "False", "None", or "raised" for an exception
\* that leaves it) after printing `say`; control passes to the caller.
Return(fn, val, say) ==
    LET k == IF entry = "main" THEN MainCont(fn, val) ELSE Stop("idle", {})
    IN  /\ pc' = k.pc
        /\ status' = [f \in Functions |->
                        IF f = fn THEN val
                        ELSE IF f = "main" /\ entry = "main" THEN k.main
                        ELSE IF f = k.pc THEN "active"
                        ELSE status[f]]
        /\ reported' = reported \cup say \cup k.say
        /\ i' = 1
        /\ j' = 1

-----------------------------------------------------------------------------
(* Initial states *)

Init ==
    /\ platform \in Platforms
    /\ entry \in Functions
    /\ \E pngs \in SUBSET AllPngs, hasDirs \in BOOLEAN, hasSvg \in BOOLEAN :
          /\ hasDirs \/ pngs = {}
          /\ fs0 = (IF hasDirs THEN Range(dirs) \cup pngs ELSE {})
                     \cup (IF hasSvg THEN {svg_file} ELSE {})
    /\ fs = fs0
    /\ written = {}
    /\ calls = <<>>
    /\ reported = {}
    /\ pc = entry
    /\ i = 1
    /\ j = 1
    /\ missing = <<>>
    /\ status = [f \in Functions |-> IF f = entry THEN "active" ELSE "idle"]

-----------------------------------------------------------------------------
(* main *)

Main ==
    /\ pc = "main"
    /\ pc' = "check_dependencies"
    /\ status' = [status EXCEPT !["check_dependencies"] = "active"]
    /\ reported' = reported \cup {"Prestige AI App Icon Generator"}
    /\ UNCHANGED <<platform, entry, fs0, fs, written, calls, i, j, missing>>

-----------------------------------------------------------------------------
(* check_dependencies *)

\* line 25: a tool wanted on macOS only is not counted elsewhere
Exempt(tool) == tool = "iconutil" /\ platform # "darwin"

ProbeTool ==
    /\ pc = "check_dependencies"
    /\ i <= Len(required_tools)
    /\ LET tool == required_tools[i]
       IN  \E ok \in BOOLEAN :
             /\ calls' = Append(calls, Call(<<tool, "--version">>, ok))
             /\ IF ok
                THEN /\ reported' = reported \cup {tool \o " is available"}
                     /\ missing' = missing
                ELSE IF Exempt(tool)
                THEN /\ reported' = reported
                           \cup {tool \o " not available (not on macOS)"}
                     /\ missing' = missing
                ELSE /\ missing' = Append(missing,
                           tool \o " - Install: " \o install_info(tool))
                     /\ reported' = reported
    /\ i' = i + 1
    /\ UNCHANGED <<platform, entry, fs0, fs, written, pc, j, status>>

CheckDependenciesEnd ==
    /\ pc = "check_dependencies"
    /\ i > Len(required_tools)
    /\ IF missing # <<>>
       THEN Return("check_dependencies", "False",
                   {"Missing required tools:"} \cup Range(missing))
       ELSE Return("check_dependencies", "True", {})
    /\ UNCHANGED <<platform, entry, fs0, fs, written, calls, missing>>

-----------------------------------------------------------------------------
(* create_directories *)

CreateDirectories ==
    /\ pc = "create_directories"
    /\ fs' = fs \cup Range(dirs)
    /\ written' = written \cup (Range(dirs) \ fs)
    /\ Return("create_directories", "None", {})
    /\ UNCHANGED <<platform, entry, fs0, calls, missing>>

-----------------------------------------------------------------------------
(* generate_png_sizes *)

\* lines 59-65
RasterCmd(size) ==
    <<"magick", "-background", "none", "-size", SizeArg(size),
      svg_file, PngPath(size)>>

GenCheckSvg ==
    /\ pc = "generate_png_sizes"
    /\ IF svg_file \notin fs
       THEN Return("generate_png_sizes", "False",
                   {"SVG file not found: " \o svg_file})
       ELSE /\ pc' = "rasterize"
            /\ reported' = reported \cup {"Generating PNG files..."}
            /\ UNCHANGED <<i, j, status>>
    /\ UNCHANGED <<platform, entry, fs0, fs, written, calls, missing>>

\* a loop that reports the failed size and goes on to the next one
RasterFailure_Continue(output_file) ==
    /\ reported' = reported \cup {"Failed to generate " \o output_file}
    /\ i' = i + 1
    /\ UNCHANGED <<fs, written, pc, j, status>>

\* What follows a rasterizer invocation that exits non-zero, lines 70-72
RasterFailure(output_file) ==
    /\ Return("generate_png_sizes", "False",
              {"Failed to generate " \o output_file})
    /\ UNCHANGED <<fs, written>>

Rasterize ==
    /\ pc = "rasterize"
    /\ i <= Len(sizes)
    /\ LET size == sizes[i]
           output_file == PngPath(size)
       IN  \E ok \in BOOLEAN :
             /\ ok => "icons/png" \in fs
             /\ calls' = Append(calls, Call(RasterCmd(size), ok))
             /\ IF ok
                THEN /\ fs' = fs \cup {output_file}
                     /\ written' = written \cup {output_file}
                     /\ reported' = reported \cup {"Generated " \o output_file}
                     /\ i' = i + 1
                     /\ UNCHANGED <<pc, j, status>>
                ELSE RasterFailure(output_file)
    /\ UNCHANGED <<platform, entry, fs0, missing>>

GenDone ==
    /\ pc = "rasterize"
    /\ i > Len(sizes)
    /\ Return("generate_png_sizes", "True", {})
    /\ UNCHANGED <<platform, entry, fs0, fs, written, calls, missing>>

-----------------------------------------------------------------------------
(* create_icns_file *)

\* a function without the platform guard
SkipIcns_Never == FALSE

\* line 78: the function does nothing off macOS
SkipIcns == platform # "darwin"

\* lines 87-95, in dict order
icon_mappings ==
    << <<16,   <<"icon_16x16.png">> >>,
       <<32,   <<"icon_16x16@2x.png", "icon_32x32.png">> >>,
       <<64,   <<"icon_32x32@2x.png">> >>,
       <<128,  <<"icon_128x128.png">> >>,
       <<256,  <<"icon_128x128@2x.png", "icon_256x256.png">> >>,
       <<512,  <<"icon_256x256@2x.png", "icon_512x512.png">> >>,
       <<1024, <<"icon_512x512@2x.png">> >> >>

\* f'{iconset_dir}/{filename}'
IconsetPath(filename) == iconset_dir \o "/" \o filename

\* the staging directory and everything the function may have put in it
Staging ==
    {iconset_dir} \cup
    UNION {{IconsetPath(icon_mappings[m][2][n]) :
               n \in 1..Len(icon_mappings[m][2])} :
           m \in 1..Len(icon_mappings)}

IcnsStart ==
    /\ pc = "create_icns_file"
    /\ IF SkipIcns
       THEN /\ Return("create_icns_file", "True",
                      {"Skipping .icns creation (not on macOS)"})
            /\ UNCHANGED <<fs, written>>
       ELSE IF "icons" \notin fs
       THEN \* Path(iconset_dir).mkdir: the parent is missing
            /\ Return("create_icns_file", "raised", {})
            /\ UNCHANGED <<fs, written>>
       ELSE /\ fs' = fs \cup {iconset_dir}
            /\ written' = written \cup ({iconset_dir} \ fs)
            /\ reported' = reported \cup {"Creating .icns file..."}
            /\ pc' = "icns_copy"
            /\ UNCHANGED <<i, j, status>>
    /\ UNCHANGED <<platform, entry, fs0, calls, missing>>

\* lines 99-101: a size whose raster is missing is skipped
IcnsSkipSize ==
    /\ pc = "icns_copy"
    /\ i <= Len(icon_mappings)
    /\ PngPath(icon_mappings[i][1]) \notin fs
    /\ i' = i + 1
    /\ j' = 1
    /\ UNCHANGED <<platform, entry, fs0, fs, written, calls, reported, pc,
                   missing, status>>

\* lines 102-104: cp runs with check=True outside any try block
IcnsCopy ==
    /\ pc = "icns_copy"
    /\ i <= Len(icon_mappings)
    /\ LET source == PngPath(icon_mappings[i][1])
           filenames == icon_mappings[i][2]
           dest == IconsetPath(filenames[j])
       IN  /\ source \in fs
           /\ \E ok \in BOOLEAN :
                /\ calls' = Append(calls, Call(<<"cp", source, dest>>, ok))
                /\ IF ok
                   THEN /\ fs' = fs \cup {dest}
                        /\ written' = written \cup {dest}
                        /\ IF j < Len(filenames)
                           THEN i' = i /\ j' = j + 1
                           ELSE i' = i + 1 /\ j' = 1
                        /\ UNCHANGED <<reported, pc, status>>
                   ELSE /\ Return("create_icns_file", "raised", {})
                        /\ UNCHANGED <<fs, written>>
    /\ UNCHANGED <<platform, entry, fs0, missing>>

\* lines 107-109 and 114-116
IcnsBundle ==
    /\ pc = "icns_copy"
    /\ i > Len(icon_mappings)
    /\ \E ok \in BOOLEAN :
         /\ calls' = Append(calls,
                            Call(<<"iconutil", "-c", "icns", iconset_dir>>, ok))
         /\ IF ok
            THEN /\ fs' = fs \cup {icns_file}
                 /\ written' = written \cup {icns_file}
                 /\ reported' = reported \cup {"Generated " \o icns_file}
                 /\ pc' = "icns_cleanup"
                 /\ UNCHANGED <<i, j, status>>
            ELSE /\ Return("create_icns_file", "False",
                           {"Failed to create .icns file"})
                 /\ UNCHANGED <<fs, written>>
    /\ UNCHANGED <<platform, entry, fs0, missing>>

\* lines 111-116: rm runs inside the try block, after the success message
IcnsCleanup ==
    /\ pc = "icns_cleanup"
    /\ \E ok \in BOOLEAN :
         /\ calls' = Append(calls, Call(<<"rm", "-rf", iconset_dir>>, ok))
         /\ IF ok
            THEN /\ fs' = fs \ Staging
                 /\ Return("create_icns_file", "True", {})
            ELSE /\ fs' = fs
                 /\ Return("create_icns_file", "False",
                           {"Failed to create .icns file"})
    /\ UNCHANGED <<platform, entry, fs0, written, missing>>

-----------------------------------------------------------------------------
(* create_ico_file *)

\* line 121
png_files == [k \in 1..Len(ico_sizes) |-> PngPath(ico_sizes[k])]

\* a list that is not filtered by existence
ExistingFiles_NoFilter(files) == files

\* line 124: [f for f in png_files if Path(f).exists()]
ExistingFiles(files) == SelectSeq(files, LAMBDA f : f \in fs)

\* line 133
IcoCmd(existing_files) == <<"magick">> \o existing_files \o <<ico_file>>

CreateIcoFile ==
    /\ pc = "create_ico_file"
    /\ LET existing_files == ExistingFiles(png_files)
       IN  IF existing_files = <<>>
           THEN /\ Return("create_ico_file", "False",
                          {"No PNG files found for .ico creation"})
                /\ UNCHANGED <<fs, written, calls>>
           ELSE \E ok \in BOOLEAN :
                  /\ calls' = Append(calls, Call(IcoCmd(existing_files), ok))
                  /\ IF ok
                     THEN /\ fs' = fs \cup {ico_file}
                          /\ written' = written \cup {ico_file}
                          /\ Return("create_ico_file", "True",
                                    {"Creating .ico file...",
                                     "Generated " \o ico_file})
                     ELSE /\ UNCHANGED <<fs, written>>
                          /\ Return("create_ico_file", "False",
                                    {"Creating .ico file...",
                                     "Failed to create .ico file"})
    /\ UNCHANGED <<platform, entry, fs0, missing>>

-----------------------------------------------------------------------------
(* create_favicon_files *)

\* a mapping in which the first value of a repeated key is kept
DictInsert_FirstWins(d, kv) ==
    IF \E n \in 1..Len(d) : d[n][1] = kv[1] THEN d ELSE Append(d, kv)

\* A Python dict display: a repeated key keeps its first position and takes
\* the last value.
DictInsert(d, kv) ==
    IF \E n \in 1..Len(d) : d[n][1] = kv[1]
    THEN [n \in 1..Len(d) |-> IF d[n][1] = kv[1] THEN kv ELSE d[n]]
    ELSE Append(d, kv)

RECURSIVE DictLiteral(_)
DictLiteral(pairs) ==
    IF pairs = <<>> THEN <<>>
    ELSE DictInsert(DictLiteral(SubSeq(pairs, 1, Len(pairs) - 1)),
                    pairs[Len(pairs)])

\* lines 146-150
favicon_mappings ==
    DictLiteral(<< <<"icons/png/icon-32x32.png", "favicon-32x32.png">>,
                   <<"icons/png/icon-16x16.png", "favicon-16x16.png">>,
                   <<"icons/png/icon-32x32.png", "favicon.png">> >>)

favicon_ico == "favicon.ico"

\* a guard that asks for either raster instead of both
HasFaviconSources_Either ==
    "icons/png/icon-16x16.png" \in fs \/ "icons/png/icon-32x32.png" \in fs

\* line 158
HasFaviconSources ==
    "icons/png/icon-16x16.png" \in fs /\ "icons/png/icon-32x32.png" \in fs

\* line 160
FaviconCmd ==
    <<"magick", "icons/png/icon-16x16.png", "icons/png/icon-32x32.png",
      favicon_ico>>

\* lines 152-153: a mapping whose source is missing is skipped
FaviconSkip ==
    /\ pc = "create_favicon_files"
    /\ i <= Len(favicon_mappings)
    /\ favicon_mappings[i][1] \notin fs
    /\ i' = i + 1
    /\ reported' = reported \cup {"Creating favicon files..."}
    /\ UNCHANGED <<platform, entry, fs0, fs, written, calls, pc, j, missing,
                   status>>

\* lines 154-155: cp runs with check=True outside any try block
FaviconCopy ==
    /\ pc = "create_favicon_files"
    /\ i <= Len(favicon_mappings)
    /\ LET source == favicon_mappings[i][1]
           dest == favicon_mappings[i][2]
       IN  /\ source \in fs
           /\ \E ok \in BOOLEAN :
                /\ calls' = Append(calls, Call(<<"cp", source, dest>>, ok))
                /\ IF ok
                   THEN /\ fs' = fs \cup {dest}
                        /\ written' = written \cup {dest}
                        /\ reported' = reported \cup
                              {"Creating favicon files...",
                               "Generated " \o dest}
                        /\ i' = i + 1
                        /\ UNCHANGED <<pc, j, status>>
                   ELSE /\ Return("create_favicon_files", "raised",
                                  {"Creating favicon files..."})
                        /\ UNCHANGED <<fs, written>>
    /\ UNCHANGED <<platform, entry, fs0, missing>>

\* lines 157-164
FaviconPack ==
    /\ pc = "create_favicon_files"
    /\ i > Len(favicon_mappings)
    /\ IF HasFaviconSources
       THEN \E ok \in BOOLEAN :
              /\ calls' = Append(calls, Call(FaviconCmd, ok))
              /\ IF ok
                 THEN /\ fs' = fs \cup {favicon_ico}
                      /\ written' = written \cup {favicon_ico}
                      /\ Return("create_favicon_files", "None",
                                {"Generated " \o favicon_ico})
                 ELSE /\ UNCHANGED <<fs, written>>
                      /\ Return("create_favicon_files", "None",
                                {"Failed to create " \o favicon_ico})
       ELSE /\ Return("create_favicon_files", "None", {})
            /\ UNCHANGED <<fs, written, calls>>
    /\ UNCHANGED <<platform, entry, fs0, missing>>

-----------------------------------------------------------------------------
(* update_electron_config *)

UpdateElectronConfig ==
    /\ pc = "update_electron_config"
    /\ fs' = fs \cup {config_file}
    /\ written' = written \cup {config_file}
    /\ Return("update_electron_config", "None",
              {"Updating Electron configuration...",
               "Created electron-build-config.txt with build configuration"})
    /\ UNCHANGED <<platform, entry, fs0, calls, missing>>

-----------------------------------------------------------------------------

Next ==
    \/ Main
    \/ ProbeTool
    \/ CheckDependenciesEnd
    \/ CreateDirectories
    \/ GenCheckSvg
    \/ Rasterize
    \/ GenDone
    \/ IcnsStart
    \/ IcnsSkipSize
    \/ IcnsCopy
    \/ IcnsBundle
    \/ IcnsCleanup
    \/ CreateIcoFile
    \/ FaviconSkip
    \/ FaviconCopy
    \/ FaviconPack
    \/ UpdateElectronConfig

Spec == Init /\ [][Next]_vars

-----------------------------------------------------------------------------
(* Vocabulary of the properties *)

Returned(fn) == status[fn] \in {"True", "False", "None"}

Ended(fn) == Returned(fn) \/ status[fn] = "raised"

IsProbe(c) == Len(c.argv) = 2 /\ c.argv[2] = "--version"

IsRaster(c) == c.argv[1] = "magick" /\ ~IsProbe(c) /\ c.argv[2] = "-background"

IsCp(c) == c.argv[1] = "cp"

IsBundler(c) == c.argv[1] = "iconutil" /\ ~IsProbe(c)

IsRm(c) == c.argv[1] = "rm"

IsPack(c) == c.argv[1] = "magick" /\ ~IsProbe(c) /\ ~IsRaster(c)

IsIcoPack(c) == IsPack(c) /\ c.argv[Len(c.argv)] = ico_file

IsFaviconPack(c) == IsPack(c) /\ c.argv[Len(c.argv)] = favicon_ico

IsFaviconCp(c) == IsCp(c) /\ c.argv[3] \notin Staging

Some(P(_)) == \E n \in 1..Len(calls) : P(calls[n])

Every(P(_)) == \A n \in 1..Len(calls) : P(calls[n])

Assemblers == {"create_icns_file", "create_ico_file", "create_favicon_files"}

Png16 == "icons/png/icon-16x16.png"

Png32 == "icons/png/icon-32x32.png"

FaviconOutputs ==
    {favicon_ico, "favicon.png", "favicon-16x16.png", "favicon-32x32.png"}

FailureLines ==
    {"Please install required dependencies and try again",
     "Failed to generate PNG files"}

-----------------------------------------------------------------------------
\* C1 (as claimed): a run of main in which prestige-ai-logo.svg does not
\* exist ends having reported failure and having created none of icons,
\* icons/png, build.
C1_AbsentSvgCreatesNoDirs ==
    (entry = "main" /\ svg_file \notin fs0 /\ pc = "done") =>
        /\ reported \cap FailureLines # {}
        /\ Range(dirs) \cap written = {}

-----------------------------------------------------------------------------
\* a probe of a mandatory tool has failed
MandatoryMissing ==
    Some(LAMBDA c : /\ IsProbe(c)
                    /\ ~c.ok
                    /\ \/ c.argv[1] = "magick"
                       \/ c.argv[1] = "iconutil" /\ platform = "darwin")

\* C2: check_dependencies returns failure exactly when the probe of magick
\* failed, or the probe of iconutil failed on macOS; a failed probe of
\* iconutil elsewhere is not counted.  When it returns failure main stops
\* with the filesystem as it was: nothing created or written, no command run
\* but the probes, no later step entered.  When it returns success the run
\* goes on to create the directories.
C2_MissingToolAbortsBeforeAnyWrite ==
    /\ Ended("check_dependencies") =>
          (status["check_dependencies"] = "False" <=> MandatoryMissing)
    /\ (entry = "main" /\ status["check_dependencies"] = "False") =>
          /\ pc = "done"
          /\ status["main"] = "None"
          /\ fs = fs0
          /\ written = {}
          /\ Every(IsProbe)
          /\ \A f \in Functions \ {"main", "check_dependencies"} :
                status[f] = "idle"
          /\ reported \cap FailureLines # {}
    /\ (entry = "main" /\ status["check_dependencies"] = "True") =>
          status["create_directories"] # "idle"

C2_Witness ==
    /\ entry = "main"
    /\ pc = "done"
    /\ status["check_dependencies"] = "False"
    /\ platform = "darwin"
    /\ Some(LAMBDA c : c.argv = <<"magick", "--version">> /\ c.ok)
    /\ Some(LAMBDA c : c.argv = <<"iconutil", "--version">> /\ ~c.ok)

-----------------------------------------------------------------------------
\* C3 (as claimed): in a run of main where check_dependencies and
\* generate_png_sizes succeeded, whatever fails inside an assembler, all
\* three assemblers are executed and electron-build-config.txt is written.
C3_AssemblerFailureIsolated ==
    (entry = "main" /\ status["generate_png_sizes"] = "True" /\ pc = "done") =>
        /\ \A f \in Assemblers : status[f] # "idle"
        /\ config_file \in written

-----------------------------------------------------------------------------
\* C4 (as claimed): in a run of main on macOS, once create_icns_file has
\* returned, the staging directory icons/prestige-ai.iconset does not exist,
\* and a failed bundler invocation makes the function return failure.
C4_StagingRemovedOnReturn ==
    (entry = "main" /\ platform = "darwin" /\ Returned("create_icns_file")) =>
        /\ iconset_dir \notin fs
        /\ Some(LAMBDA c : IsBundler(c) /\ ~c.ok) =>
              status["create_icns_file"] = "False"

-----------------------------------------------------------------------------
\* C5: in a run of main where generate_png_sizes returned failure, main
\* has stopped: no assembler and no config emitter was entered, no command
\* but probes and rasterizer invocations was run, and no .icns, .ico,
\* favicon file or electron-build-config.txt was written.
C5_RasterFailureIsTerminal ==
    (entry = "main" /\ status["generate_png_sizes"] = "False") =>
        /\ pc = "done"
        /\ status["main"] = "None"
        /\ \A f \in Assemblers \cup {"update_electron_config"} :
              status[f] = "idle"
        /\ Every(LAMBDA c : IsProbe(c) \/ IsRaster(c))
        /\ written \cap ({icns_file, ico_file, config_file}
                           \cup FaviconOutputs \cup Staging) = {}
        /\ "Failed to generate PNG files" \in reported

C5_Witness ==
    /\ entry = "main"
    /\ status["generate_png_sizes"] = "False"
    /\ Some(LAMBDA c : IsRaster(c) /\ ~c.ok)
    /\ Some(LAMBDA c : IsRaster(c) /\ c.ok)

-----------------------------------------------------------------------------
RasterCalls == SelectSeq(calls, IsRaster)

\* C6: the rasterizer invocations are made for 16, 32, 48, 64, 128, 256,
\* 512, 1024 in that order, one per size; a failed invocation is the last
\* one (nothing later, nothing retried) and makes generate_png_sizes return
\* failure; the function returns success only after all eight invocations
\* succeeded, and then every icons/png/icon-{size}x{size}.png was written.
C6_FirstRasterFailureEndsStep ==
    /\ Len(RasterCalls) <= Len(sizes)
    /\ \A k \in 1..Len(RasterCalls) :
          /\ RasterCalls[k].argv = RasterCmd(sizes[k])
          /\ ~RasterCalls[k].ok => k = Len(RasterCalls)
    /\ Some(LAMBDA c : IsRaster(c) /\ ~c.ok) =>
          status["generate_png_sizes"] = "False"
    /\ status["generate_png_sizes"] = "True" =>
          /\ Len(RasterCalls) = Len(sizes)
          /\ \A k \in 1..Len(RasterCalls) : RasterCalls[k].ok
          /\ \A k \in 1..Len(sizes) :
                PngPath(sizes[k]) \in written \cap fs

C6_Witness ==
    /\ status["generate_png_sizes"] = "False"
    /\ Len(RasterCalls) = 3
    /\ ~RasterCalls[3].ok
    /\ PngPath(64) \in fs

-----------------------------------------------------------------------------
\* the rasters of ico_sizes that exist, in the order of ico_sizes; rasters
\* are neither created nor deleted once create_ico_file has been entered
IcoSources == SelectSeq(png_files, LAMBDA f : f \in fs)

IcoPackCalls == SelectSeq(calls, IsIcoPack)

\* what both statements of C7 say about the packer
IcoPackerUse ==
    /\ IcoSources = <<>> =>
          /\ status["create_ico_file"] = "False"
          /\ IcoPackCalls = <<>>
    /\ IcoSources # <<>> =>
          /\ Len(IcoPackCalls) = 1
          /\ IcoPackCalls[1].argv = <<"magick">> \o IcoSources \o <<ico_file>>

\* C7 (as claimed): once create_ico_file has returned, icons/prestige-ai.ico
\* was produced if and only if at least one raster of 16, 32, 48, 64, 128,
\* 256 exists; with none the function returned failure without invoking the
\* packer, with some the packer was invoked exactly once on exactly the
\* existing rasters.
C7_IcoIffSomeRaster ==
    Returned("create_ico_file") =>
        /\ ico_file \in written <=> IcoSources # <<>>
        /\ IcoPackerUse

\* C7 (amended): as claimed, except that icons/prestige-ai.ico is produced
\* if and only if at least one raster exists and the packer invocation
\* succeeds; the function returns success in exactly that case.
C7_IcoIffSomeRasterAndPackerOk ==
    /\ Len(IcoPackCalls) <= 1
    /\ ico_file \in written => Returned("create_ico_file")
    /\ Returned("create_ico_file") =>
          /\ IcoPackerUse
          /\ ico_file \in written <=>
                (IcoSources # <<>> /\ IcoPackCalls[1].ok)
          /\ ico_file \in written <=> status["create_ico_file"] = "True"

C7_Witness ==
    /\ Returned("create_ico_file")
    /\ Len(IcoSources) = 2
    /\ ~IcoPackCalls[1].ok
    /\ ico_file \notin fs

-----------------------------------------------------------------------------
FaviconPackCalls == SelectSeq(calls, IsFaviconPack)

\* both rasters the combined favicon is made of exist; rasters are neither
\* created nor deleted once create_favicon_files has been entered
BothFaviconRasters == Png16 \in fs /\ Png32 \in fs

\* C8 (as claimed): once create_favicon_files has returned, favicon.ico was
\* produced if and only if both icon-16x16.png and icon-32x32.png exist;
\* when either is missing the packer was not invoked for favicon.ico.
C8_FaviconIcoIffBothRasters ==
    Returned("create_favicon_files") =>
        /\ favicon_ico \in written <=> BothFaviconRasters
        /\ ~BothFaviconRasters => FaviconPackCalls = <<>>

\* C8 (amended): favicon.ico is produced only if both rasters exist; when
\* either is missing the packer is not invoked for favicon.ico; when both
\* exist and create_favicon_files returns, the packer was invoked exactly
\* once, and favicon.ico is produced exactly when that invocation succeeded.
C8_FaviconIcoIffBothRastersAndPackerOk ==
    /\ Len(FaviconPackCalls) <= 1
    /\ ~BothFaviconRasters => FaviconPackCalls = <<>>
    /\ favicon_ico \in written <=>
          (BothFaviconRasters /\ Len(FaviconPackCalls) = 1
             /\ FaviconPackCalls[1].ok)
    /\ (BothFaviconRasters /\ Returned("create_favicon_files")) =>
          /\ Len(FaviconPackCalls) = 1
          /\ FaviconPackCalls[1].argv = <<"magick", Png16, Png32, favicon_ico>>

C8_Witness ==
    /\ Returned("create_favicon_files")
    /\ BothFaviconRasters
    /\ Len(FaviconPackCalls) = 1
    /\ ~FaviconPackCalls[1].ok
    /\ favicon_ico \notin fs

-----------------------------------------------------------------------------
\* C9: off macOS create_icns_file returns success and changes nothing: it
\* creates no staging directory, copies nothing into it, runs neither the
\* bundler nor rm, writes no .icns, and a direct call leaves the filesystem
\* as it found it with no command run at all.
C9_IcnsIsNoOpOffMac ==
    platform # "darwin" =>
        /\ written \cap (Staging \cup {icns_file}) = {}
        /\ fs \cap (Staging \cup {icns_file}) = {}
        /\ Every(LAMBDA c : ~IsBundler(c) /\ ~IsRm(c)
                            /\ (IsCp(c) => IsFaviconCp(c)))
        /\ status["create_icns_file"] \in {"idle", "active", "True"}
        /\ (entry = "create_icns_file" /\ pc = "done") =>
              /\ status["create_icns_file"] = "True"
              /\ fs = fs0
              /\ written = {}
              /\ calls = <<>>

C9_Witness ==
    /\ platform # "darwin"
    /\ status["create_icns_file"] = "True"
    /\ entry = "main"
    /\ AllPngs \subseteq fs

-----------------------------------------------------------------------------
FaviconCpCalls == SelectSeq(calls, IsFaviconCp)

CopiedTo(source, dest) ==
    Cardinality({n \in 1..Len(FaviconCpCalls) :
                    FaviconCpCalls[n].argv = <<"cp", source, dest>>})

\* C10: create_favicon_files never copies to favicon-32x32.png: the only
\* copies it makes are icon-32x32.png to favicon.png and icon-16x16.png to
\* favicon-16x16.png, the 32px one first, each at most once and only when
\* its source raster exists; when the function returns, each of the two
\* copies was made exactly if its source exists.
C10_FaviconDuplicateKeyLastWins ==
    /\ "favicon-32x32.png" \notin written \cup fs
    /\ \A n \in 1..Len(FaviconCpCalls) :
          /\ FaviconCpCalls[n].argv \in {<<"cp", Png32, "favicon.png">>,
                                         <<"cp", Png16, "favicon-16x16.png">>}
          /\ FaviconCpCalls[n].argv[2] \in fs
          /\ FaviconCpCalls[n].ok => FaviconCpCalls[n].argv[3] \in written
          /\ (FaviconCpCalls[n].argv[2] = Png32 /\ n > 1) =>
                FaviconCpCalls[1].argv[2] = Png32
    /\ CopiedTo(Png32, "favicon.png") <= 1
    /\ CopiedTo(Png16, "favicon-16x16.png") <= 1
    /\ Returned("create_favicon_files") =>
          /\ CopiedTo(Png32, "favicon.png") = (IF Png32 \in fs THEN 1 ELSE 0)
          /\ CopiedTo(Png16, "favicon-16x16.png") =
                (IF Png16 \in fs THEN 1 ELSE 0)

C10_Witness ==
    /\ Returned("create_favicon_files")
    /\ {"favicon.png", "favicon-16x16.png"} \subseteq written
    /\ Len(FaviconCpCalls) = 2

====
